---------------------------- MODULE Spec2Model ----------------------------
(***************************************************************************)
(* A model of the bank crate: the in-memory ledger (Bank, Account), the    *)
(* interactive transaction handler (Bank::handle_transaction with          *)
(* get_tx_info / prompt_and_get_input) and the datagram loop of run_app.   *)
(*                                                                         *)
(* Strings are sequences of one-character strings, so that trimming,       *)
(* parsing and formatting are computed the way the code computes them.     *)
(* Amount is i64 in the source; the model keeps two's-complement           *)
(* arithmetic but at AmountBits bits, since TLC's integers are 32 bits      *)
(* wide.  Every boundary value used below is stated relative to AmountMin  *)
(* and AmountMax.                                                          *)
(***************************************************************************)
EXTENDS Integers, Sequences, FiniteSets, TLC

VARIABLES
    accounts,            \* Bank.accounts : HashMap<String, Account>
    overflow_checks,     \* build profile: TRUE = debug (overflow panics), FALSE = release (wraps)
    stdin,               \* the lines consumed by the last get_tx_info
    tx_info,             \* the TXInfo the last get_tx_info produced (ok = FALSE when it failed)
    ret,                 \* what the last handle_transaction call returned / how it ended
    stdout,              \* the lines the last call printed with println!
    ntx,                 \* number of handle_transaction calls made so far
    pc,                  \* position of run_app
    instruction_buffer,  \* run_app's 3-byte receive buffer
    received,            \* what the last listener.recv returned: [ok, data]
    sent,                \* what the last sender.send was given, and whether it succeeded
    nmsg                 \* number of listener.recv calls that returned so far

vars == <<accounts, overflow_checks, stdin, tx_info, ret, stdout, ntx,
          pc, instruction_buffer, received, sent, nmsg>>

bankVars == <<accounts, stdin, tx_info, ret, stdout, ntx>>
appVars  == <<pc, instruction_buffer, received, sent, nmsg>>

---------------------------------------------------------------------------
(* Bounds of the model *)

AmountBits == 16
MaxTx == 2
MaxMsg == 3

---------------------------------------------------------------------------
(* type Amount = i64 *)

AmountMax == 2^(AmountBits - 1) - 1
AmountMin == -(2^(AmountBits - 1))
Amount == AmountMin..AmountMax

\* two's-complement wrap of a mathematical integer into Amount
Wrap(x) == ((x - AmountMin) % 2^AmountBits) + AmountMin

---------------------------------------------------------------------------
(* Strings *)

Digits == <<"0", "1", "2", "3", "4", "5", "6", "7", "8", "9">>
IsDigit(c) == \E i \in 1..10 : Digits[i] = c
DigitVal(c) == (CHOOSE i \in 1..10 : Digits[i] = c) - 1

EmptyString == <<>>
is_empty(s) == Len(s) = 0

WhiteSpace == {" ", "\n", "\t", "\r"}

RECURSIVE trim_start(_)
trim_start(s) ==
    IF s # <<>> /\ Head(s) \in WhiteSpace THEN trim_start(Tail(s)) ELSE s

RECURSIVE trim_end(_)
trim_end(s) ==
    IF s # <<>> /\ s[Len(s)] \in WhiteSpace
    THEN trim_end(SubSeq(s, 1, Len(s) - 1))
    ELSE s

\* str::trim
trim(s) == trim_end(trim_start(s))

\* decimal digits of a natural number, most significant first
RECURSIVE FmtNat(_)
FmtNat(n) ==
    IF n < 10 THEN <<Digits[n + 1]>>
    ELSE FmtNat(n \div 10) \o <<Digits[(n % 10) + 1]>>

\* Display for an integer: "-" and the digits of the magnitude
FmtInt(n) == IF n < 0 THEN <<"-">> \o FmtNat(-n) ELSE FmtNat(n)

\* str::parse::<i64>: an optional sign, then one or more decimal digits,
\* accumulated with checked multiplication and checked addition (subtraction
\* for a negative number).  Result: [ok, val].
ParseErr == [ok |-> FALSE, val |-> 0]

RECURSIVE parse_digits(_, _, _)
parse_digits(s, acc, neg) ==
    IF s = <<>> THEN [ok |-> TRUE, val |-> acc]
    ELSE IF ~IsDigit(Head(s)) THEN ParseErr
    ELSE LET d == DigitVal(Head(s))
             next == IF neg THEN acc * 10 - d ELSE acc * 10 + d
         IN  IF next \notin Amount THEN ParseErr
             ELSE parse_digits(Tail(s), next, neg)

parse_i64(s) ==
    IF s = <<>> THEN ParseErr
    ELSE IF s = <<"+">> \/ s = <<"-">> THEN ParseErr
    ELSE IF Head(s) = "+" THEN parse_digits(Tail(s), 0, FALSE)
    ELSE IF Head(s) = "-" THEN parse_digits(Tail(s), 0, TRUE)
    ELSE parse_digits(s, 0, FALSE)

---------------------------------------------------------------------------
(* Account *)

patko == <<"p", "a", "t", "k", "o">>
siska == <<"s", "i", "s", "k", "a">>
sofka == <<"s", "o", "f", "k", "a">>

Account_new(name, balance) == [name |-> name, balance |-> balance]

\* Bank::new with a loop that stops one account early
Bank_new_short(accs) ==
    [k \in {accs[i].name : i \in 1..(Len(accs) - 1)} |->
        accs[CHOOSE j \in 1..(Len(accs) - 1) : accs[j].name = k]]

\* Bank::new: insert every account under its own name
Bank_new(accs) ==
    [k \in {accs[i].name : i \in 1..Len(accs)} |->
        LET i == CHOOSE j \in 1..Len(accs) :
                    /\ accs[j].name = k
                    /\ \A l \in (j + 1)..Len(accs) : accs[l].name # k
        IN  accs[i]]

init_bank ==
    Bank_new(<<Account_new(patko, 1000),
               Account_new(siska, 1000),
               Account_new(sofka, 1000)>>)

\* An i64 operation: the mathematical result when it fits; otherwise the
\* build decides: a panic with overflow checks, the wrapped value without.
Arith(x, checks) ==
    IF x \in Amount THEN [panic |-> FALSE, val |-> x]
    ELSE IF checks THEN [panic |-> TRUE, val |-> 0]
    ELSE [panic |-> FALSE, val |-> Wrap(x)]

\* self.balance - amount >= 0
has_sufficient_funds(acc, amount, checks) ==
    LET d == Arith(acc.balance - amount, checks)
    IN  [panic |-> d.panic, val |-> (~d.panic /\ d.val >= 0)]

\* self.balance -= amount
subtract_funds(acc, amount, checks) ==
    LET d == Arith(acc.balance - amount, checks)
    IN  [panic |-> d.panic,
         acc |-> IF d.panic THEN acc ELSE [acc EXCEPT !.balance = d.val]]

\* self.balance += amount
add_funds(acc, amount, checks) ==
    LET d == Arith(acc.balance + amount, checks)
    IN  [panic |-> d.panic,
         acc |-> IF d.panic THEN acc ELSE [acc EXCEPT !.balance = d.val]]

\* Display for Account: "{name}, {balance}"
Account_fmt(acc) == acc.name \o <<",", " ">> \o FmtInt(acc.balance)

---------------------------------------------------------------------------
(* Errors and their Display *)

\* the characters of a string literal of the source, one by one
Lit_Accounts == <<"A", "c", "c", "o", "u", "n", "t", "(", "s", ")", " ">>
Lit_not_found == <<" ", "n", "o", "t", " ", "f", "o", "u", "n", "d">>
Lit_and == <<" ", "a", "n", "d", " ">>
Lit_Account == <<"A", "c", "c", "o", "u", "n", "t", " ">>
Lit_insufficient ==
    <<" ", "h", "a", "s", " ", "i", "n", "s", "u", "f", "f", "i", "c", "i",
      "e", "n", "t", " ", "f", "u", "n", "d", "s">>
Lit_io == <<"C", "u", "s", "t", "o", "m", " ", "I", "/", "O", " ",
            "E", "r", "r", "o", "r">>
Lit_amount == <<"I", "n", "c", "o", "r", "r", "e", "c", "t", " ",
                "a", "m", "o", "u", "n", "t">>

Lit_Transaction_OK ==
    <<"T", "r", "a", "n", "s", "a", "c", "t", "i", "o", "n", " ", "O", "K">>

Quoted(s) == <<"'">> \o s \o <<"'">>

\* Display for AccountNamesTuple
AccountNamesTuple_fmt(t) ==
    IF is_empty(t[1]) THEN Quoted(t[1])
    ELSE IF is_empty(t[2]) THEN Quoted(t[2])
    ELSE Quoted(t[1]) \o Lit_and \o Quoted(t[2])

NoNames == <<EmptyString, EmptyString>>

Ok == [tag |-> "Ok", account_name |-> EmptyString, names |-> NoNames, why |-> "-"]
NotCalled == [Ok EXCEPT !.tag = "None"]
IOError == [Ok EXCEPT !.tag = "IOError"]
ParseIntError == [Ok EXCEPT !.tag = "ParseIntError"]
InsufficientFundsError(name) ==
    [Ok EXCEPT !.tag = "InsufficientFundsError", !.account_name = name]
AccountDoesNotExistError(a, b) ==
    [Ok EXCEPT !.tag = "AccountDoesNotExistError", !.names = <<a, b>>]
Panic(why) == [Ok EXCEPT !.tag = "panic", !.why = why]

\* Display for CustomError (the #[error(...)] attributes)
CustomError_fmt(e) ==
    IF e.tag = "AccountDoesNotExistError"
    THEN Lit_Accounts \o AccountNamesTuple_fmt(e.names) \o Lit_not_found
    ELSE IF e.tag = "InsufficientFundsError"
    THEN Lit_Account \o e.account_name \o Lit_insufficient
    ELSE IF e.tag = "IOError" THEN Lit_io
    ELSE IF e.tag = "ParseIntError" THEN Lit_amount
    ELSE EmptyString

---------------------------------------------------------------------------
(* Reading a transaction from the terminal *)

\* What one prompt finds on the terminal: a line, or an I/O failure of the
\* flush or of the read.
Line(s) == [err |-> FALSE, line |-> s]
IoFailure == [err |-> TRUE, line |-> EmptyString]

prompt_and_get_input(in) ==
    IF in.err THEN [ok |-> FALSE, val |-> EmptyString]
    ELSE [ok |-> TRUE, val |-> trim(in.line)]

NoTx == [ok |-> FALSE, from |-> EmptyString, to |-> EmptyString, amount |-> 0]

\* get_tx_info: three prompts, then the amount is parsed; the first failure
\* returns.  Result: [err, tx, used] with used the number of lines consumed.
get_tx_info(f, t, a) ==
    LET from == prompt_and_get_input(f)
        to == prompt_and_get_input(t)
        amount == prompt_and_get_input(a)
        parsed == parse_i64(amount.val)
    IN  IF ~from.ok THEN [err |-> IOError, tx |-> NoTx, used |-> 1]
        ELSE IF ~to.ok THEN [err |-> IOError, tx |-> NoTx, used |-> 2]
        ELSE IF ~amount.ok THEN [err |-> IOError, tx |-> NoTx, used |-> 3]
        ELSE IF ~parsed.ok THEN [err |-> ParseIntError, tx |-> NoTx, used |-> 3]
        ELSE [err |-> Ok, used |-> 3,
              tx |-> [ok |-> TRUE, from |-> from.val, to |-> to.val,
                      amount |-> parsed.val]]

---------------------------------------------------------------------------
(* Bank *)

contains_key(accs, k) == k \in DOMAIN accs

\* hashbrown's HashMap::get_many_mut([k1, k2]): Some only when every key is
\* present and the keys are pairwise distinct
get_many_mut(accs, k1, k2) ==
    /\ contains_key(accs, k1)
    /\ contains_key(accs, k2)
    /\ k1 # k2

\* The transfer of handle_transaction once both accounts are borrowed.
\* Result: [accounts, ret].
Transfer(accs, tx, checks) ==
    LET suf == has_sufficient_funds(accs[tx.from], tx.amount, checks)
        sub == subtract_funds(accs[tx.from], tx.amount, checks)
        debited == [accs EXCEPT ![tx.from] = sub.acc]
        add == add_funds(accs[tx.to], tx.amount, checks)
    IN  IF suf.panic THEN [accounts |-> accs, ret |-> Panic("overflow")]
        ELSE IF ~suf.val
        THEN [accounts |-> accs, ret |-> InsufficientFundsError(tx.from)]
        ELSE IF sub.panic THEN [accounts |-> accs, ret |-> Panic("overflow")]
        ELSE IF add.panic THEN [accounts |-> debited, ret |-> Panic("overflow")]
        ELSE [accounts |-> [debited EXCEPT ![tx.to] = add.acc], ret |-> Ok]

\* NotFound with the names of the two one-sided arms exchanged
NotFound_swapped(accs, tx) ==
    LET f == tx.from \in DOMAIN accs
        t == tx.to \in DOMAIN accs
    IN  IF ~f /\ t THEN AccountDoesNotExistError(EmptyString, tx.to)
        ELSE IF f /\ ~t THEN AccountDoesNotExistError(tx.from, EmptyString)
        ELSE IF ~f /\ ~t THEN AccountDoesNotExistError(tx.from, tx.to)
        ELSE Panic("unreachable")

\* The else branch of handle_transaction: which account is missing
NotFound(accs, tx) ==
    LET f == contains_key(accs, tx.from)
        t == contains_key(accs, tx.to)
    IN  IF ~f /\ t THEN AccountDoesNotExistError(tx.from, EmptyString)
        ELSE IF f /\ ~t THEN AccountDoesNotExistError(EmptyString, tx.to)
        ELSE IF ~f /\ ~t THEN AccountDoesNotExistError(tx.from, tx.to)
        ELSE Panic("unreachable")

\* Bank::handle_transaction, given what its call of get_tx_info returned
handle_transaction(accs, got, checks) ==
    IF ~got.tx.ok THEN [accounts |-> accs, ret |-> got.err]
    ELSE IF get_many_mut(accs, got.tx.from, got.tx.to)
    THEN Transfer(accs, got.tx, checks)
    ELSE [accounts |-> accs, ret |-> NotFound(accs, got.tx)]

\* The orders in which iterating the HashMap can visit its entries
Orders(accs) ==
    {o \in [1..Cardinality(DOMAIN accs) -> DOMAIN accs] :
        \A i, j \in DOMAIN o : i # j => o[i] # o[j]}

\* show_all_accounts with a loop that stops before the last entry
show_all_accounts_short(accs, o) ==
    [i \in 1..(Len(o) - 1) |-> Account_fmt(accs[o[i]])]

\* Bank::show_all_accounts: one line per account, in iteration order
show_all_accounts(accs, o) == [i \in DOMAIN o |-> Account_fmt(accs[o[i]])]

RECURSIVE Bank_fmt_from(_, _, _)
Bank_fmt_from(accs, o, i) ==
    IF i > Len(o) THEN EmptyString
    ELSE accs[o[i]].name \o <<",", " ">> \o FmtInt(accs[o[i]].balance) \o <<"\n">>
         \o Bank_fmt_from(accs, o, i + 1)

\* Display for Bank: writeln!("{}, {}", name, balance) for every entry, in
\* iteration order
Bank_fmt(accs, o) == Bank_fmt_from(accs, o, 1)

\* the byte of each character the ledger's texts are made of
CharCode ==
    "\n" :> 10 @@ " " :> 32 @@ "," :> 44 @@ "-" :> 45
    @@ "0" :> 48 @@ "1" :> 49 @@ "2" :> 50 @@ "3" :> 51 @@ "4" :> 52
    @@ "5" :> 53 @@ "6" :> 54 @@ "7" :> 55 @@ "8" :> 56 @@ "9" :> 57
    @@ "a" :> 97 @@ "f" :> 102 @@ "i" :> 105 @@ "k" :> 107 @@ "o" :> 111
    @@ "p" :> 112 @@ "s" :> 115 @@ "t" :> 116

\* str::as_bytes
as_bytes(s) == [j \in 1..Len(s) |-> CharCode[s[j]]]

---------------------------------------------------------------------------
(* Inputs *)

ghost == <<"g", "h", "o", "s", "t">>
NL == <<"\n">>

NameLines ==
    {Line(patko \o NL), Line(siska \o NL), Line(<<" ">> \o sofka \o <<"\r", "\n">>),
     Line(ghost \o NL)}

\* amounts typed at the prompt: values around the balances, the extremes of
\* Amount, and the first values outside it
SampleAmounts ==
    {0, 300, 5000, -300, AmountMin, 1000 - AmountMax, AmountMax + 1}

AmountLines ==
    {Line(FmtInt(n) \o NL) : n \in SampleAmounts}
    \cup {Line(<<"a", "b", "c">> \o NL)}

\* What the terminal can hold when handle_transaction prompts, with what
\* get_tx_info makes of it; lines is the part of the input that is consumed.
TerminalInputs ==
    {[lines |-> SubSeq(<<f, t, a>>, 1, get_tx_info(f, t, a).used),
      got |-> get_tx_info(f, t, a)] :
        f \in NameLines \cup {IoFailure},
        t \in NameLines \cup {IoFailure},
        a \in AmountLines \cup {IoFailure}}

---------------------------------------------------------------------------
(* run_app: bytes, buffers and datagrams *)

\* the byte values of the characters the model sends
Ascii == [t |-> 116, i |-> 105, q |-> 113, x |-> 120,
          a |-> 97, b |-> 98, c |-> 99, d |-> 100]

IsCont(b) == b >= 128 /\ b <= 191

\* str::from_utf8(...).is_ok() for a byte sequence
RECURSIVE from_utf8_ok(_)
from_utf8_ok(bs) ==
    IF bs = <<>> THEN TRUE
    ELSE LET b == bs[1]
             n == Len(bs)
         IN  IF b < 128 THEN from_utf8_ok(Tail(bs))
             ELSE IF b >= 194 /\ b <= 223
             THEN n >= 2 /\ IsCont(bs[2]) /\ from_utf8_ok(SubSeq(bs, 3, n))
             ELSE IF b >= 224 /\ b <= 239
             THEN /\ n >= 3
                  /\ IsCont(bs[2])
                  /\ IsCont(bs[3])
                  /\ (b = 224 => bs[2] >= 160)
                  /\ (b = 237 => bs[2] <= 159)
                  /\ from_utf8_ok(SubSeq(bs, 4, n))
             ELSE IF b >= 240 /\ b <= 244
             THEN /\ n >= 4
                  /\ IsCont(bs[2])
                  /\ IsCont(bs[3])
                  /\ IsCont(bs[4])
                  /\ (b = 240 => bs[2] >= 144)
                  /\ (b = 244 => bs[2] <= 143)
                  /\ from_utf8_ok(SubSeq(bs, 5, n))
             ELSE FALSE

\* vec![0; 3]
NewBuffer == <<0, 0, 0>>

\* UnixDatagram::recv into buf: the datagram's first Len(buf) bytes replace
\* the start of buf, the rest of the datagram is dropped
recv_into(buf, data) ==
    [k \in 1..Len(buf) |-> IF k <= Len(data) THEN data[k] ELSE buf[k]]

NothingReceived == [ok |-> FALSE, data |-> <<>>]
NothingSent == [done |-> FALSE, ok |-> FALSE, data |-> <<>>]

\* b"abcd"
Reply == <<Ascii.a, Ascii.b, Ascii.c, Ascii.d>>

\* The payload of a transfer patko -> siska of 300, as the text of the three
\* fields from, to and amount, one per line
TransferPayload == as_bytes(patko \o NL \o siska \o NL \o FmtInt(300))

\* The datagrams a peer may send to the listener: the three instructions,
\* another letter, an empty datagram, one longer than the buffer, a
\* two-byte character, byte sequences that are not UTF-8, and the payload
\* of a transfer
Datagrams ==
    {<<Ascii.t>>, <<Ascii.i>>, <<Ascii.q>>, <<Ascii.x>>, <<>>,
     <<Ascii.t, Ascii.x, Ascii.q, Ascii.i>>, <<195, 169>>, <<255>>, <<195>>,
     TransferPayload}

---------------------------------------------------------------------------
(* The state machine *)

Init ==
    /\ accounts = init_bank
    /\ overflow_checks \in BOOLEAN
    /\ stdin = <<>>
    /\ tx_info = NoTx
    /\ ret = NotCalled
    /\ stdout = <<>>
    /\ ntx = 0
    /\ pc = "create_listener"
    /\ instruction_buffer = <<0, 0, 0>>
    /\ received = NothingReceived
    /\ sent = NothingSent
    /\ nmsg = 0

\* a thread that panicked makes no further call
Alive == ret.tag # "panic"

\* One call of Bank::handle_transaction with the terminal holding one of inputs
HandleTransactionOn(inputs) ==
    /\ Alive
    /\ ntx < MaxTx
    /\ \E in \in inputs :
         LET r == handle_transaction(accounts, in.got, overflow_checks)
         IN  /\ stdin' = in.lines
             /\ tx_info' = in.got.tx
             /\ accounts' = r.accounts
             /\ ret' = r.ret
             /\ stdout' = IF r.ret.tag = "Ok" THEN <<Lit_Transaction_OK>> ELSE <<>>
    /\ ntx' = ntx + 1
    /\ UNCHANGED <<overflow_checks, appVars>>

HandleTransaction == HandleTransactionOn(TerminalInputs)

ShowAllAccounts ==
    /\ Alive
    /\ \E o \in Orders(accounts) : stdout' = show_all_accounts(accounts, o)
    /\ UNCHANGED <<accounts, overflow_checks, stdin, tx_info, ret, ntx, appVars>>

Next == HandleTransaction \/ ShowAllAccounts

Spec == Init /\ [][Next]_vars

\* The ledger under listings: the same two operations, with the terminal
\* restricted to well-formed transactions of two amounts (a transfer, and
\* one that drives a balance below zero)
InfoInputs ==
    {in \in TerminalInputs :
        in.got.tx.ok /\ in.got.tx.amount \in {300, 1000 - AmountMax}}

InfoTransaction == HandleTransactionOn(InfoInputs)

InfoNext == InfoTransaction \/ ShowAllAccounts

InfoSpec == Init /\ [][InfoNext]_vars

---------------------------------------------------------------------------
(* run_app and main *)

\* create_listener(SOCK_SRC)?: removing a stale socket file or binding can fail
CreateListener ==
    /\ pc = "create_listener"
    /\ \E ok \in BOOLEAN : pc' = IF ok THEN "unbound" ELSE "returned_err"
    /\ UNCHANGED <<bankVars, overflow_checks, instruction_buffer, received, sent, nmsg>>

\* UnixDatagram::unbound()?
Unbound ==
    /\ pc = "unbound"
    /\ \E ok \in BOOLEAN : pc' = IF ok THEN "recv" ELSE "returned_err"
    /\ UNCHANGED <<bankVars, overflow_checks, instruction_buffer, received, sent, nmsg>>

\* Top of the loop: a fresh buffer, listener.recv, and on Ok the
\* str::from_utf8(&instruction_buffer).unwrap()
Recv ==
    /\ pc = "recv"
    /\ nmsg < MaxMsg
    /\ nmsg' = nmsg + 1
    /\ \/ \E data \in Datagrams :
             LET buf == recv_into(NewBuffer, data)
             IN  /\ received' = [ok |-> TRUE, data |-> data]
                 /\ instruction_buffer' = buf
                 /\ pc' = IF from_utf8_ok(buf) THEN "connect" ELSE "panicked"
       \/ /\ received' = [ok |-> FALSE, data |-> <<>>]
          /\ instruction_buffer' = NewBuffer
          /\ pc' = "recv"
    /\ UNCHANGED <<bankVars, overflow_checks, sent>>

\* sender.connect(SOCK_DST)?
Connect ==
    /\ pc = "connect"
    /\ \E ok \in BOOLEAN : pc' = IF ok THEN "send" ELSE "returned_err"
    /\ UNCHANGED <<bankVars, overflow_checks, instruction_buffer, received, sent, nmsg>>

\* sender.send(b"abcd"): either outcome is printed and the loop goes on
Send ==
    /\ pc = "send"
    /\ \E ok \in BOOLEAN : sent' = [done |-> TRUE, ok |-> ok, data |-> Reply]
    /\ pc' = "recv"
    /\ UNCHANGED <<bankVars, overflow_checks, instruction_buffer, received, nmsg>>

\* main: run_app(bank).unwrap()
MainUnwrap ==
    /\ pc = "returned_err"
    /\ pc' = "panicked"
    /\ UNCHANGED <<bankVars, overflow_checks, instruction_buffer, received, sent, nmsg>>

AppNext == CreateListener \/ Unbound \/ Recv \/ Connect \/ Send \/ MainUnwrap

AppSpec == Init /\ [][AppNext]_vars

\* run_app with its scheduling: every step of the program itself is taken
\* once it can be.  listener.recv is a blocking call without a read timeout:
\* it returns only when the peer sends a datagram or the socket fails, so
\* nothing obliges Recv to happen.
AppFairSpec ==
    /\ AppSpec
    /\ WF_vars(CreateListener)
    /\ WF_vars(Unbound)
    /\ WF_vars(Connect)
    /\ WF_vars(Send)
    /\ WF_vars(MainUnwrap)


---------------------------------------------------------------------------
(* Vocabulary of the properties *)

RECURSIVE SumOver(_, _)
SumOver(accs, keys) ==
    IF keys = {} THEN 0
    ELSE LET k == CHOOSE x \in keys : TRUE
         IN  accs[k].balance + SumOver(accs, keys \ {k})

\* the sum of all balances, as a mathematical integer
TotalBalance == SumOver(accounts, DOMAIN accounts)

SeedTotal == SumOver(init_bank, DOMAIN init_bank)

\* this step is a call of handle_transaction
TxStep == ntx' = ntx + 1

\* the call read a transaction between two distinct existing accounts
BetweenTwoAccounts ==
    /\ tx_info'.ok
    /\ tx_info'.from \in DOMAIN accounts
    /\ tx_info'.to \in DOMAIN accounts
    /\ tx_info'.from # tx_info'.to

BalancesUnchanged ==
    /\ DOMAIN accounts' = DOMAIN accounts
    /\ \A k \in DOMAIN accounts : accounts'[k].balance = accounts[k].balance

\* sub occurs in text
Contains(text, sub) ==
    \E i \in 1..(Len(text) - Len(sub) + 1) :
        SubSeq(text, i, i + Len(sub) - 1) = sub

RECURSIVE DecimalValue(_, _)
DecimalValue(s, acc) ==
    IF s = <<>> THEN acc ELSE DecimalValue(Tail(s), acc * 10 + DigitVal(Head(s)))

\* s is the decimal text of a non-negative integer of the Amount type
NonNegativeAmountText(s) ==
    LET d == IF s # <<>> /\ Head(s) = "+" THEN Tail(s) ELSE s
    IN  /\ d # <<>>
        /\ \A i \in 1..Len(d) : IsDigit(d[i])
        /\ Len(d) <= AmountBits
        /\ DecimalValue(d, 0) <= AmountMax

\* the text typed at the amount prompt of the last call, trimmed
AmountTyped == trim(stdin[3].line)
AllLinesRead == Len(stdin) = 3 /\ \A i \in 1..3 : ~stdin[i].err

LastWas(data) == received.ok /\ received.data = data
Instructions == {<<Ascii.t>>, <<Ascii.i>>, <<Ascii.q>>}

---------------------------------------------------------------------------
(* Properties *)

\* C1: after any sequence of handle_transaction calls the sum of all
\* balances equals the seed sum, 3000.
C1_Conservation == TotalBalance = SeedTotal

\* C2: a transfer between two distinct existing accounts with
\* 0 <= amount <= from.balance returns Ok, takes exactly amount from the
\* from account, adds exactly amount to the to account, and leaves every
\* other balance unchanged.
C2_SuccessfulTransfer ==
    [][(/\ TxStep
        /\ BetweenTwoAccounts
        /\ 0 <= tx_info'.amount
        /\ tx_info'.amount <= accounts[tx_info'.from].balance)
       => (/\ ret'.tag = "Ok"
           /\ DOMAIN accounts' = DOMAIN accounts
           /\ accounts'[tx_info'.from].balance
                = accounts[tx_info'.from].balance - tx_info'.amount
           /\ accounts'[tx_info'.to].balance
                = accounts[tx_info'.to].balance + tx_info'.amount
           /\ \A k \in DOMAIN accounts \ {tx_info'.from, tx_info'.to} :
                accounts'[k].balance = accounts[k].balance)]_vars

\* C3: a transfer between two existing accounts with amount > from.balance
\* returns InsufficientFundsError carrying the from account's name and
\* changes no balance.
C3_InsufficientFunds ==
    [][(/\ TxStep
        /\ BetweenTwoAccounts
        /\ tx_info'.amount > accounts[tx_info'.from].balance)
       => (/\ ret' = InsufficientFundsError(tx_info'.from)
           /\ BalancesUnchanged)]_vars

\* C4: a transfer whose from, to or both are no names of the ledger returns
\* AccountDoesNotExistError, changes no balance, and the error records the
\* name of exactly each missing side (the empty string for a side that
\* exists).
C4_AccountNotFound ==
    [][(/\ TxStep
        /\ tx_info'.ok
        /\ (tx_info'.from \notin DOMAIN accounts \/ tx_info'.to \notin DOMAIN accounts))
       => (/\ ret'.tag = "AccountDoesNotExistError"
           /\ BalancesUnchanged
           /\ ret'.names[1] = (IF tx_info'.from \in DOMAIN accounts
                               THEN EmptyString ELSE tx_info'.from)
           /\ ret'.names[2] = (IF tx_info'.to \in DOMAIN accounts
                               THEN EmptyString ELSE tx_info'.to))]_vars

\* C4 witness: ghost -> patko was refused, recording ghost alone
C4_Witness ==
    /\ tx_info.ok
    /\ tx_info.from = ghost
    /\ tx_info.to = patko
    /\ ret = AccountDoesNotExistError(ghost, EmptyString)

\* C5: the text rendered for an AccountDoesNotExistError names every
\* missing account and no existing account.
C5_NotFoundMessage ==
    (ret.tag = "AccountDoesNotExistError")
    => (/\ \A n \in {tx_info.from, tx_info.to} \ DOMAIN accounts :
              Contains(CustomError_fmt(ret), n)
        /\ \A k \in DOMAIN accounts : ~Contains(CustomError_fmt(ret), k))

\* C6: a transfer with from = to naming an existing account returns (Ok or
\* an error) without panicking and changes no balance.
C6_SelfTransfer ==
    [][(/\ TxStep
        /\ tx_info'.ok
        /\ tx_info'.from = tx_info'.to
        /\ tx_info'.from \in DOMAIN accounts)
       => (ret'.tag # "panic" /\ BalancesUnchanged)]_vars

\* C7: a request whose amount is not the text of a non-negative integer in
\* the Amount range is rejected with an error, changes no balance and does
\* not crash.  (Stated for requests whose two names differ; a request
\* naming one account twice is the subject of C6.)
C7_MalformedAmount ==
    [][(/\ TxStep
        /\ AllLinesRead'
        /\ trim(stdin'[1].line) # trim(stdin'[2].line)
        /\ ~NonNegativeAmountText(AmountTyped'))
       => (/\ ret'.tag \in {"ParseIntError", "IOError", "InsufficientFundsError",
                            "AccountDoesNotExistError"}
           /\ BalancesUnchanged)]_vars

\* C8: the set of account names is exactly {patko, siska, sofka} in every
\* reachable state, and each map key is the name stored in its Account.
C8_FixedAccountSet ==
    /\ DOMAIN accounts = {patko, siska, sofka}
    /\ \A k \in DOMAIN accounts : accounts[k].name = k

\* C8 witness: after the transfer patko -> siska 300 the three accounts
\* were listed
C8_Witness ==
    /\ ntx > 0
    /\ accounts[patko].balance = 700
    /\ accounts[siska].balance = 1300
    /\ Len(stdout) = 3
    /\ \A k \in {patko, siska, sofka} :
         \E i \in 1..3 : stdout[i] = Account_fmt(accounts[k])

\* C9: once the loop has received the quit instruction 'q' it terminates:
\* it is never again waiting for an instruction.
C9_QuitTerminates == LastWas(<<Ascii.q>>) => pc # "recv"

\* C10: a received datagram that is none of 't', 'i', 'q' does not make the
\* dispatcher panic or exit, and leaves the ledger unchanged.
C10_UnknownInstructionNonFatal ==
    (received.ok /\ received.data \notin Instructions)
    => (pc \notin {"returned_err", "panicked"} /\ accounts = init_bank)

\* C11: the reply sent for the instruction 'i' is the encoding of the
\* ledger's name -> balance mapping as it is at that instant.
C11_InfoReply ==
    [][(pc = "send" /\ pc' = "recv" /\ LastWas(<<Ascii.i>>))
       => \E o \in Orders(accounts) :
             sent'.data = as_bytes(Bank_fmt(accounts, o))]_vars

\* the text before the first ", " of a printed line, and the number after it
CommaAt(line) == CHOOSE i \in 1..Len(line) : line[i] = ","
DecodeLine(line) ==
    LET c == CommaAt(line)
    IN  <<SubSeq(line, 1, c - 1), parse_i64(SubSeq(line, c + 2, Len(line))).val>>

\* out is a listing of accounts, not the output of a transaction
IsListing(out) == out # <<>> /\ \A i \in 1..Len(out) : Contains(out[i], <<",", " ">>)

\* the name -> balance pairs a listing shows, whatever the order of its lines
Snapshot(out) == {DecodeLine(out[i]) : i \in 1..Len(out)}

\* the name -> balance pairs of the ledger
Ledger(accs) == {<<k, accs[k].balance>> : k \in DOMAIN accs}

\* the lines of a text in which every line ends with a newline
RECURSIVE LinesFrom(_, _, _)
LinesFrom(text, start, i) ==
    IF i > Len(text) THEN <<>>
    ELSE IF text[i] = "\n"
    THEN <<SubSeq(text, start, i - 1)>> \o LinesFrom(text, i + 1, i + 1)
    ELSE LinesFrom(text, start, i + 1)

LinesOf(text) == LinesFrom(text, 1, 1)

\* C12: producing the account listing (show_all_accounts, Display for Bank)
\* changes no account, the listing shows exactly the ledger's
\* name -> balance mapping, and a listing that follows a listing shows the
\* same mapping.
C12_InfoReadOnly ==
    /\ [](IsListing(stdout)
          => /\ Snapshot(stdout) = Ledger(accounts)
             /\ \A o \in Orders(accounts) :
                  \A text \in {Bank_fmt(accounts, o)} :
                     \A lines \in {LinesOf(text)} :
                        Snapshot(lines) = Snapshot(stdout))
    /\ [][(ntx' = ntx)
          => (/\ accounts' = accounts
              /\ IsListing(stdout')
              /\ (IsListing(stdout) => Snapshot(stdout') = Snapshot(stdout)))]_vars

\* C12 witness: the accounts were listed after a transfer that left a
\* negative balance, and the listing shows the ledger
C12_Witness ==
    /\ ntx > 0
    /\ \E k \in DOMAIN accounts : accounts[k].balance < 0
    /\ IsListing(stdout)
    /\ Snapshot(stdout) = Ledger(accounts)

\* C13: after a 't' instruction was acknowledged, the next datagram is the
\* payload, and the transfer it describes is applied to the ledger; the
\* dispatcher then awaits the next instruction.
C13_TwoPhaseTransfer ==
    [][(/\ pc = "recv"
        /\ LastWas(<<Ascii.t>>)
        /\ sent.done
        /\ received' = [ok |-> TRUE, data |-> TransferPayload])
       => (/\ accounts'[patko].balance = accounts[patko].balance - 300
           /\ accounts'[siska].balance = accounts[siska].balance + 300
           /\ accounts'[sofka].balance = accounts[sofka].balance)]_vars

\* the dispatcher has answered a 't' and is blocked in recv
AwaitingPayload == pc = "recv" /\ LastWas(<<Ascii.t>>) /\ sent.done

\* C14: a dispatcher that waits for the payload of a 't' does not wait
\* forever: if nothing arrives it eventually gives the transfer up and goes
\* on.  (Stated for waits that begin while the peer may still send a
\* datagram, so that the wait is not one the bound MaxMsg imposes.)
C14_BoundedWait == (AwaitingPayload /\ nmsg < MaxMsg) ~> ~AwaitingPayload

\* run_app is inside its loop: the listener is bound and the sender exists
InLoop == pc \in {"recv", "connect", "send"}

\* C15: once the listener is bound, no failure of a receive, of connecting
\* the reply socket or of sending a reply makes run_app return: the step
\* leaves it inside the loop.  (A panic of from_utf8(..).unwrap() is no
\* transport fault and is the subject of C10.)
C15_TransportFaultsNonFatal ==
    [][InLoop => pc' # "returned_err"]_vars

\* C16: in every state reached by handle_transaction calls, every
\* account's balance is >= 0.
C16_NonNegativeBalances ==
    \A k \in DOMAIN accounts : accounts[k].balance >= 0

\* C17: for every transaction that get_tx_info accepts between two accounts,
\* the subtraction of has_sufficient_funds (and of subtract_funds) and, when
\* the funds suffice, the addition of add_funds stay within the Amount
\* range; no call ends in an overflow panic.
C17_NoOverflow ==
    [][(TxStep /\ BetweenTwoAccounts)
       => (/\ accounts[tx_info'.from].balance - tx_info'.amount \in Amount
           /\ (accounts[tx_info'.from].balance - tx_info'.amount >= 0
                 => accounts[tx_info'.to].balance + tx_info'.amount \in Amount)
           /\ ret'.why # "overflow")]_vars

\* C18: a transfer of amount 0 between two distinct existing accounts
\* returns Ok, whatever the from balance, and changes no balance.
C18_ZeroAmount ==
    [][(TxStep /\ BetweenTwoAccounts /\ tx_info'.amount = 0)
       => (ret'.tag = "Ok" /\ BalancesUnchanged)]_vars

=============================================================================
